---- MODULE Spec2Model ----
(***************************************************************************)
(* Pomotodo: a Pomodoro timer (focus / short break / long break) coupled   *)
(* with a to-do list.  The model follows PomodoroAppWithTodo               *)
(* (src/pomotodo.py), DraggableListWidget (src/drag_task.py),              *)
(* TaskWidgetItem (src/task_widget.py), EditTaskDialog                     *)
(* (src/edit_task_dialog.py) and SettingsDialog (src/settings_dialog.py).  *)
(*                                                                         *)
(* One action per Qt slot.  A slot that opens a modal dialog whose nested  *)
(* event loop still delivers QTimer timeouts (the edit dialog, the delete  *)
(* confirmation) is split into the part before and the part after the     *)
(* dialog.  Positions in Python lists are 0-based; TLA+ sequences are      *)
(* 1-based, so list position i is sequence position i + 1.                 *)
(***************************************************************************)
EXTENDS Integers, Sequences, FiniteSets, TLC

\* ------------------------------------------------------------------ bounds
MaxTasks == 2
MaxCompleted == 2
MaxCycleCount == 4
MaxFocusCompletions == 6

\* ------------------------------------------------- inputs and their domains
SecondsPerMinute == 60
None == -1
States == {"pomodoro", "short_break", "long_break"}
\* what the user can type into a task line edit
InputTexts == {"", " ", " a"}
\* what the estimate spin boxes can hold (a prefix of their range)
Estimates == {1, 2}
\* what the user can type into the three duration line edits of the settings dialog
SettingsForms == {<<"1", "1", "1">>, <<"2", "1", "1">>, <<"1", "0", "1">>, <<"1", "1", "x">>}
\* what the interval spin box can hold (a prefix of its range 2..10)
Intervals == {2, 3}
\* durations, in minutes, a stored settings record holds in the initial state
InitMinutes == {1}

VARIABLES
    focus_time_min,               \* settings, minutes
    short_break_time_min,
    long_break_time_min,
    long_break_interval,
    dark_mode_enabled,
    tasks,                        \* self.tasks, aliased by the list widget's tasks_ref
    current_time_left,            \* seconds
    is_running,
    current_state,
    completed_pomodoros_in_cycle,
    timer_active,                 \* QTimer.isActive()
    current_task_index,           \* None or a list position
    items,                        \* UserRole data of the list widget's rows, top to bottom
    pending,                      \* the modal dialog that is open, and what its slot captured
    crashed,                      \* an exception left a slot: PyQt6 aborts the process
    file,                         \* content of pomodoro_data.json
    last,                         \* observation: the slot that ran last and what it emitted
    pure_focus_completions        \* observation: focus completions of a run made of completions only

settingsVars == <<focus_time_min, short_break_time_min, long_break_time_min,
                  long_break_interval>>
sessionVars == <<current_time_left, is_running, current_state,
                 completed_pomodoros_in_cycle, timer_active>>
taskVars == <<tasks, current_task_index, items>>
vars == <<settingsVars, dark_mode_enabled, sessionVars, taskVars, pending, crashed,
          file, last, pure_focus_completions>>

\* ------------------------------------------------------------------ helpers
\* (the seconds of the 1-minute focus duration the initial state holds)
focus_time_not_recomputed == SecondsPerMinute
focus_time == focus_time_min * SecondsPerMinute
short_break_time == short_break_time_min * SecondsPerMinute
long_break_time == long_break_time_min * SecondsPerMinute

\* a task is a Python dict; after a drop a list entry is the int a row carried
TaskDict(text, estimated, completed, done) ==
    [text |-> text, estimated |-> estimated, completed |-> completed, done |-> done]
IntEntry(i) == [int |-> i]
IsDict(t) == "text" \in DOMAIN t

\* list position i of a Python list held as a sequence
At(s, i) == s[i + 1]
DelAt(s, i) == SubSeq(s, 1, i) \o SubSeq(s, i + 2, Len(s))
Positions(s) == 0 .. (Len(s) - 1)

\* str.strip() on the texts the user can type
Strip(s) ==
    CASE s = "" -> ""
      [] s = " " -> ""
      [] s = " a" -> "a"
      [] s = "a" -> "a"

NoPending == [kind |-> "none", row |-> None, rows |-> {}, stale |-> FALSE]
\* what the last slot did: its name, the sound cue and the "Task Completed!" box it
\* raised, and the case of the slot that applied ("warning": it showed a
\* QMessageBox.warning and returned)
Observed(op, sound, notified, detail) ==
    [op |-> op, sound |-> sound, notified |-> notified, detail |-> detail]

\* json.dump without the dark mode setting
SaveDataWithoutDarkMode(fmin, smin, lmin, interval, dark, ts) ==
    [settings |-> [focus_time_min |-> fmin, short_break_time_min |-> smin,
                   long_break_time_min |-> lmin, long_break_interval |-> interval],
     tasks |-> ts]
\* json.dump of the settings and the task list
SaveData(fmin, smin, lmin, interval, dark, ts) ==
    [settings |-> [focus_time_min |-> fmin, short_break_time_min |-> smin,
                   long_break_time_min |-> lmin, long_break_interval |-> interval,
                   dark_mode_enabled |-> dark],
     tasks |-> ts]

\* _save_data when open() raises OSError: the file is left as it was, and the
\* exception, which no caller handles, leaves the slot
SaveFails ==
    /\ file' = file
    /\ crashed' = TRUE

\* _update_task_list_display: TaskWidgetItem(task_data) calls task_data.get, which an
\* int does not have
DisplayRaises(ts) == \E k \in 1 .. Len(ts) : ~IsDict(ts[k])
DisplayItems(ts) == [k \in 1 .. Len(ts) |-> k - 1]

\* the duration _update_ui_for_state loads into current_time_left
PhaseDurationAlwaysFocus(state) == focus_time
PhaseDuration(state) ==
    CASE state = "pomodoro" -> focus_time
      [] state = "short_break" -> short_break_time
      [] state = "long_break" -> long_break_time

\* the sound _update_timer selects
SoundFor(state) == IF state = "pomodoro" THEN "focus_end" ELSE "break_end"
\* the sound _skip_current_phase selects
SkipSoundAlwaysFocusEnd(state) == "focus_end"
SkipSoundFor(state) == IF state = "pomodoro" THEN "focus_end" ELSE "break_end"

\* the break a completed focus phase leads to; count is the counter after its increment
BreakAfterFocusBeforeIncrement(count, interval) ==
    IF (count - 1) % interval = 0 THEN "long_break" ELSE "short_break"
BreakAfterFocus(count, interval) ==
    IF count % interval = 0 THEN "long_break" ELSE "short_break"

\* the counter after a break phase has been left
CountAfterBreakAlwaysReset(previous_state, count) == 0
CountAfterBreakResetOnShort(previous_state, count) ==
    IF previous_state = "short_break" THEN 0 ELSE count
CountAfterBreak(previous_state, count) ==
    IF previous_state = "long_break" THEN 0 ELSE count

\* ------------------------------------------------------------- initial state
\* __init__: settings and tasks as _load_data read them, a fresh session
InitTasks == {<<>>, <<TaskDict("a", 2, 0, FALSE)>>}

Init ==
    /\ focus_time_min \in InitMinutes
    /\ short_break_time_min \in InitMinutes
    /\ long_break_time_min \in InitMinutes
    /\ long_break_interval \in Intervals
    /\ dark_mode_enabled = FALSE
    /\ tasks \in InitTasks
    /\ current_time_left = focus_time
    /\ is_running = FALSE
    /\ current_state = "pomodoro"
    /\ completed_pomodoros_in_cycle = 0
    /\ timer_active = FALSE
    /\ current_task_index = None
    /\ items = DisplayItems(tasks)
    /\ pending = NoPending
    /\ crashed = FALSE
    /\ file = SaveData(focus_time_min, short_break_time_min, long_break_time_min,
                       long_break_interval, dark_mode_enabled, tasks)
    /\ last = Observed("init", "none", FALSE, "")
    /\ pure_focus_completions = 0

\* -------------------------------------------------------------- stored data
\* the values _load_data falls back to
DefaultFocusMin == 25
DefaultShortBreakMin == 5
DefaultLongBreakMin == 15
DefaultInterval == 4

\* what open() and json.load can raise on pomodoro_data.json and _load_data catches
FileNotFound == [error |-> "FileNotFoundError"]
NotJson == [error |-> "JSONDecodeError"]
LoadErrors == {FileNotFound, NotJson}
\* the JSON object {} : a dict with no key
EmptyObject == <<>>

\* dict.get(key, default)
Get(dict, key, default) == IF key \in DOMAIN dict THEN dict[key] ELSE default

\* the except branch of _load_data without its _save_data
LoadDataWithoutSave(stored) ==
    [settings |-> [focus_time_min |-> DefaultFocusMin,
                   short_break_time_min |-> DefaultShortBreakMin,
                   long_break_time_min |-> DefaultLongBreakMin,
                   long_break_interval |-> DefaultInterval,
                   dark_mode_enabled |-> FALSE],
     tasks |-> <<>>,
     saves |-> FALSE]
\* _load_data on the file content `stored`: the settings and the task list it assigns,
\* and whether it calls _save_data
LoadData(stored) ==
    IF stored \in LoadErrors
    THEN [settings |-> [focus_time_min |-> DefaultFocusMin,
                        short_break_time_min |-> DefaultShortBreakMin,
                        long_break_time_min |-> DefaultLongBreakMin,
                        long_break_interval |-> DefaultInterval,
                        dark_mode_enabled |-> FALSE],
          tasks |-> <<>>,
          saves |-> TRUE]
    ELSE LET settings == Get(stored, "settings", EmptyObject) IN
         [settings |->
              [focus_time_min |-> Get(settings, "focus_time_min", DefaultFocusMin),
               short_break_time_min |->
                   Get(settings, "short_break_time_min", DefaultShortBreakMin),
               long_break_time_min |->
                   Get(settings, "long_break_time_min", DefaultLongBreakMin),
               long_break_interval |-> Get(settings, "long_break_interval", DefaultInterval),
               dark_mode_enabled |-> Get(settings, "dark_mode_enabled", FALSE)],
          tasks |-> Get(stored, "tasks", <<>>),
          saves |-> FALSE]

\* pomodoro_data.json as the first launch can find it
StoredFiles ==
    {FileNotFound, NotJson, EmptyObject,
     SaveData(1, 1, 1, 2, TRUE, <<TaskDict("a", 2, 1, FALSE)>>)}

\* __init__ on the file content `stored`: _load_data, a fresh session, the first
\* display of the task list.  The _save_data of the defaults can raise, and so can the
\* display of a loaded task list; the exception leaves __init__ and the launch fails
InitFromStore ==
    \E stored \in StoredFiles :
        LET loaded == LoadData(stored) IN
        /\ focus_time_min = loaded.settings.focus_time_min
        /\ short_break_time_min = loaded.settings.short_break_time_min
        /\ long_break_time_min = loaded.settings.long_break_time_min
        /\ long_break_interval = loaded.settings.long_break_interval
        /\ dark_mode_enabled = loaded.settings.dark_mode_enabled
        /\ tasks = loaded.tasks
        /\ current_time_left = loaded.settings.focus_time_min * SecondsPerMinute
        /\ is_running = FALSE
        /\ current_state = "pomodoro"
        /\ completed_pomodoros_in_cycle = 0
        /\ timer_active = FALSE
        /\ current_task_index = None
        /\ pending = NoPending
        /\ pure_focus_completions = 0
        /\ \/ /\ ~DisplayRaises(loaded.tasks)
              /\ items = DisplayItems(loaded.tasks)
              /\ crashed = FALSE
              /\ file = IF loaded.saves
                        THEN SaveData(loaded.settings.focus_time_min,
                                      loaded.settings.short_break_time_min,
                                      loaded.settings.long_break_time_min,
                                      loaded.settings.long_break_interval,
                                      loaded.settings.dark_mode_enabled, loaded.tasks)
                        ELSE stored
              /\ last = Observed("init", "none", FALSE,
                                 IF stored \in LoadErrors THEN stored.error ELSE "")
           \/ /\ loaded.saves
              /\ items = <<>>
              /\ crashed = TRUE
              /\ file = stored
              /\ last = Observed("save_failed", "none", FALSE, "init")
           \/ /\ DisplayRaises(loaded.tasks)
              /\ items = <<>>
              /\ crashed = TRUE
              /\ file = stored
              /\ last = Observed("crash", "none", FALSE, "")

\* the window is closed, or the process has aborted, and the program is launched
\* again: __init__ on the file content the last run left
Restart ==
    LET loaded == LoadData(file) IN
    /\ crashed \/ pending.kind = "none"
    /\ focus_time_min' = loaded.settings.focus_time_min
    /\ short_break_time_min' = loaded.settings.short_break_time_min
    /\ long_break_time_min' = loaded.settings.long_break_time_min
    /\ long_break_interval' = loaded.settings.long_break_interval
    /\ dark_mode_enabled' = loaded.settings.dark_mode_enabled
    /\ tasks' = loaded.tasks
    /\ current_time_left' = loaded.settings.focus_time_min * SecondsPerMinute
    /\ is_running' = FALSE
    /\ current_state' = "pomodoro"
    /\ completed_pomodoros_in_cycle' = 0
    /\ timer_active' = FALSE
    /\ current_task_index' = None
    /\ pending' = NoPending
    /\ pure_focus_completions' = -1
    /\ \/ /\ ~DisplayRaises(loaded.tasks)
          /\ items' = DisplayItems(loaded.tasks)
          /\ crashed' = FALSE
          /\ file' = IF loaded.saves
                     THEN SaveData(loaded.settings.focus_time_min,
                                   loaded.settings.short_break_time_min,
                                   loaded.settings.long_break_time_min,
                                   loaded.settings.long_break_interval,
                                   loaded.settings.dark_mode_enabled, loaded.tasks)
                     ELSE file
          /\ last' = Observed("init", "none", FALSE,
                              IF file \in LoadErrors THEN file.error ELSE "")
       \/ /\ loaded.saves
          /\ items' = <<>>
          /\ SaveFails
          /\ last' = Observed("save_failed", "none", FALSE, "init")
       \/ /\ DisplayRaises(loaded.tasks)
          /\ items' = <<>>
          /\ crashed' = TRUE
          /\ file' = file
          /\ last' = Observed("crash", "none", FALSE, "")

\* the main window takes user input: no modal dialog is open, the process is alive
Idle == ~crashed /\ pending.kind = "none"

\* a run that so far consists of phase completions (ticks, start/pause, skip) only:
\* the number of focus phases it has completed; -1 once it is no such run, or is
\* longer than MaxFocusCompletions
PureAfter(focus_completed) ==
    IF pure_focus_completions = -1 THEN -1
    ELSE IF ~focus_completed THEN pure_focus_completions
    ELSE IF pure_focus_completions < MaxFocusCompletions
         THEN pure_focus_completions + 1 ELSE -1

\* ----------------------------------------------------- task progress tracker
Progress(ts, idx, credited, notified, raises) ==
    [tasks |-> ts, index |-> idx, credited |-> credited, notified |-> notified,
     raises |-> raises]

\* _update_task_progress crediting two pomodoros at once
UpdateTaskProgressByTwo(ts, idx) ==
    IF idx # None /\ idx < Len(ts) /\ IsDict(At(ts, idx)) /\ ~At(ts, idx).done
    THEN LET task == At(ts, idx)
             completed == task.completed + 2
             done == completed >= task.estimated
             credited == [ts EXCEPT ![idx + 1] =
                             [task EXCEPT !.completed = completed, !.done = done]]
         IN  Progress(credited, IF done THEN None ELSE idx, TRUE, done, FALSE)
    ELSE Progress(ts, idx, FALSE, FALSE, FALSE)
\* _update_task_progress, up to its display refresh and save: the task list and the
\* active index it leaves, whether it credited, whether it showed "Task Completed!",
\* and whether an exception left it (task["done"] on an int entry)
UpdateTaskProgress(ts, idx) ==
    IF idx # None /\ idx < Len(ts)
    THEN LET task == At(ts, idx) IN
         IF ~IsDict(task)
         THEN Progress(ts, idx, FALSE, FALSE, TRUE)
         ELSE IF ~task.done
              THEN LET completed == task.completed + 1
                       done == completed >= task.estimated
                       credited == [ts EXCEPT ![idx + 1] =
                                       [task EXCEPT !.completed = completed, !.done = done]]
                   IN  Progress(credited, IF done THEN None ELSE idx, TRUE, done,
                                DisplayRaises(credited))
              ELSE Progress(ts, idx, FALSE, FALSE, FALSE)
    ELSE Progress(ts, idx, FALSE, FALSE, FALSE)

\* the credit the next focus completion would give stays within MaxCompleted
CreditWithinBound ==
    (current_task_index # None /\ current_task_index < Len(tasks)
        /\ IsDict(At(tasks, current_task_index)))
    => At(tasks, current_task_index).completed < MaxCompleted

\* ------------------------------------------------------ session state machine
\* _toggle_timer_off_if_running: whether the QTimer is active after it
TimerLeftActive == timer_active
TimerAfterToggleOff == IF is_running THEN FALSE ELSE timer_active

\* _advance_state_machine, called by the slot `op` after it played `sound`; _update_timer
\* has stopped the QTimer itself before the call
AdvanceStateMachine(op, sound) ==
    LET previous_state == current_state
        progress == IF previous_state = "pomodoro"
                    THEN UpdateTaskProgress(tasks, current_task_index)
                    ELSE Progress(tasks, current_task_index, FALSE, FALSE, FALSE)
        count == IF previous_state = "pomodoro"
                 THEN completed_pomodoros_in_cycle + 1
                 ELSE CountAfterBreak(previous_state, completed_pomodoros_in_cycle)
        state == IF previous_state = "pomodoro"
                 THEN BreakAfterFocus(count, long_break_interval)
                 ELSE "pomodoro"
    IN
    /\ previous_state = "pomodoro" =>
           (completed_pomodoros_in_cycle < MaxCycleCount /\ CreditWithinBound)
    /\ is_running' = FALSE
    /\ timer_active' = IF op = "expire" THEN FALSE ELSE TimerAfterToggleOff
    /\ tasks' = progress.tasks
    /\ current_task_index' = progress.index
    /\ UNCHANGED <<settingsVars, dark_mode_enabled>>
    /\ IF progress.raises
       THEN /\ crashed' = TRUE
            /\ UNCHANGED <<current_state, completed_pomodoros_in_cycle,
                           current_time_left, items, pending, file>>
            /\ last' = Observed("crash", sound, progress.notified, previous_state)
            /\ pure_focus_completions' = -1
       ELSE /\ items' = IF progress.credited THEN DisplayItems(progress.tasks) ELSE items
            /\ pending' = IF progress.credited /\ pending.kind = "delete"
                          THEN [pending EXCEPT !.stale = TRUE] ELSE pending
            /\ \/ /\ crashed' = FALSE
                  /\ completed_pomodoros_in_cycle' = count
                  /\ current_state' = state
                  /\ current_time_left' = PhaseDuration(state)
                  /\ file' = IF progress.credited
                             THEN SaveData(focus_time_min, short_break_time_min,
                                           long_break_time_min, long_break_interval,
                                           dark_mode_enabled, progress.tasks)
                             ELSE file
                  /\ last' = Observed(op, sound, progress.notified, previous_state)
                  /\ pure_focus_completions' = PureAfter(previous_state = "pomodoro")
               \* the _save_data that ends _update_task_progress raises
               \/ /\ progress.credited
                  /\ SaveFails
                  /\ UNCHANGED <<current_state, completed_pomodoros_in_cycle,
                                 current_time_left>>
                  /\ last' = Observed("save_failed", sound, progress.notified,
                                      previous_state)
                  /\ pure_focus_completions' = -1

\* _toggle_timer: the START / PAUSE button
ToggleTimerRestartingCountdown ==
    /\ Idle
    /\ is_running' = ~is_running
    /\ timer_active' = ~is_running
    /\ current_time_left' = PhaseDuration(current_state)
    /\ last' = Observed("toggle_timer", "none", FALSE, "")
    /\ pure_focus_completions' = PureAfter(FALSE)
    /\ UNCHANGED <<settingsVars, dark_mode_enabled, current_state,
                   completed_pomodoros_in_cycle, taskVars, pending, crashed, file>>
ToggleTimer ==
    /\ Idle
    /\ is_running' = ~is_running
    /\ timer_active' = ~is_running
    /\ last' = Observed("toggle_timer", "none", FALSE, "")
    /\ pure_focus_completions' = PureAfter(FALSE)
    /\ UNCHANGED <<settingsVars, dark_mode_enabled, current_time_left, current_state,
                   completed_pomodoros_in_cycle, taskVars, pending, crashed, file>>

\* _update_timer: the QTimer's timeout, delivered while the timer is active, also by
\* the nested event loop of an open modal dialog
UpdateTimerAtZero ==
    AdvanceStateMachine("expire", SoundFor(current_state))
UpdateTimerAboveZero ==
    /\ current_time_left' = current_time_left - 1
    /\ last' = Observed("tick", "none", FALSE, "")
    /\ pure_focus_completions' = PureAfter(FALSE)
    /\ UNCHANGED <<settingsVars, dark_mode_enabled, is_running, current_state,
                   completed_pomodoros_in_cycle, timer_active, taskVars, pending,
                   crashed, file>>
UpdateTimerNoZeroCheck ==
    /\ ~crashed
    /\ timer_active
    /\ UpdateTimerAboveZero
UpdateTimer ==
    /\ ~crashed
    /\ timer_active
    /\ IF current_time_left > 0 THEN UpdateTimerAboveZero ELSE UpdateTimerAtZero

\* what _update_timer leaves when it finds current_time_left at 0 in a session in
\* phase `state` with counter `count`, task list ts and active index idx, and
\* nothing raises: the sound it plays, then the timer stopped, then what
\* _advance_state_machine assigns
NaturalExpiry(state, count, ts, idx) ==
    LET progress == IF state = "pomodoro" THEN UpdateTaskProgress(ts, idx)
                    ELSE Progress(ts, idx, FALSE, FALSE, FALSE)
        next_count == IF state = "pomodoro" THEN count + 1
                      ELSE IF state = "long_break" THEN 0 ELSE count
        next_state == IF state # "pomodoro" THEN "pomodoro"
                      ELSE IF next_count % long_break_interval = 0 THEN "long_break"
                      ELSE "short_break"
    IN  [sound |-> SoundFor(state),
         is_running |-> FALSE,
         timer_active |-> FALSE,
         current_state |-> next_state,
         current_time_left |-> PhaseDuration(next_state),
         completed_pomodoros_in_cycle |-> next_count,
         tasks |-> progress.tasks,
         current_task_index |-> progress.index,
         notified |-> progress.notified]

\* _skip_current_phase: the skip button
SkipCurrentPhase ==
    /\ Idle
    /\ AdvanceStateMachine("skip", SkipSoundFor(current_state))

\* the counter _set_mode leaves
CountAfterSetModeAlwaysReset(mode, count) == 0
CountAfterSetMode(mode, count) == IF mode = "pomodoro" THEN 0 ELSE count

\* _set_mode: the three mode buttons
SetMode(mode) ==
    /\ Idle
    /\ is_running' = FALSE
    /\ timer_active' = TimerAfterToggleOff
    /\ current_state' = mode
    /\ completed_pomodoros_in_cycle' =
           CountAfterSetMode(mode, completed_pomodoros_in_cycle)
    /\ current_time_left' = PhaseDuration(mode)
    /\ last' = Observed("set_mode", "none", FALSE, mode)
    /\ pure_focus_completions' = -1
    /\ UNCHANGED <<settingsVars, dark_mode_enabled, taskVars, pending, crashed, file>>

\* int() on the text of a duration line edit: the value, or ValueError
ParsesAsInt(s) == s \in {"0", "1", "2"}
IntOf(s) == CASE s = "0" -> 0 [] s = "1" -> 1 [] s = "2" -> 2

\* SettingsDialog.get_settings: the tuple it returns, or None
GetSettings(focus, short, long, interval) ==
    IF ParsesAsInt(focus) /\ ParsesAsInt(short) /\ ParsesAsInt(long)
    THEN IF IntOf(focus) <= 0 \/ IntOf(short) <= 0 \/ IntOf(long) <= 0
         THEN [ok |-> FALSE]
         ELSE [ok |-> TRUE, focus |-> IntOf(focus), short |-> IntOf(short),
               long |-> IntOf(long), interval |-> interval]
    ELSE [ok |-> FALSE]

\* _open_settings_dialog: the dialog is modal and the timer is stopped before it
\* opens, so nothing runs between its opening and its closing
OpenSettingsDialog(accepted, focus, short, long, interval) ==
    LET new_settings == GetSettings(focus, short, long, interval) IN
    /\ Idle
    /\ is_running' = FALSE
    /\ timer_active' = TimerAfterToggleOff
    /\ pure_focus_completions' = -1
    /\ UNCHANGED <<dark_mode_enabled, taskVars, pending>>
    /\ IF accepted /\ new_settings.ok
       THEN /\ focus_time_min' = new_settings.focus
            /\ short_break_time_min' = new_settings.short
            /\ long_break_time_min' = new_settings.long
            /\ long_break_interval' = new_settings.interval
            /\ completed_pomodoros_in_cycle' = 0
            /\ current_state' = "pomodoro"
            /\ current_time_left' = new_settings.focus * SecondsPerMinute
            /\ \/ /\ crashed' = FALSE
                  /\ file' = SaveData(new_settings.focus, new_settings.short,
                                      new_settings.long, new_settings.interval,
                                      dark_mode_enabled, tasks)
                  /\ last' = Observed("settings_applied", "none", FALSE, "")
               \/ /\ SaveFails
                  /\ last' = Observed("save_failed", "none", FALSE, "settings_applied")
       ELSE /\ UNCHANGED <<settingsVars, completed_pomodoros_in_cycle, current_state,
                           current_time_left, file, crashed>>
            /\ last' = IF accepted
                       THEN Observed("settings_rejected", "none", FALSE, "warning")
                       ELSE Observed("settings_cancelled", "none", FALSE, "")

\* _toggle_dark_mode: the checkable menu action, whose state starts as the setting
ToggleDarkMode ==
    /\ Idle
    /\ dark_mode_enabled' = ~dark_mode_enabled
    /\ pure_focus_completions' = -1
    /\ UNCHANGED <<settingsVars, is_running, current_state,
                   completed_pomodoros_in_cycle, timer_active, taskVars, pending>>
    /\ \/ /\ crashed' = FALSE
          /\ file' = SaveData(focus_time_min, short_break_time_min, long_break_time_min,
                              long_break_interval, ~dark_mode_enabled, tasks)
          /\ current_time_left' = PhaseDuration(current_state)
          /\ last' = Observed("toggle_dark_mode", "none", FALSE, "")
       \/ /\ SaveFails
          /\ UNCHANGED current_time_left
          /\ last' = Observed("save_failed", "none", FALSE, "toggle_dark_mode")

\* ----------------------------------------------------------------- task store
\* the display refresh and save that end a slot which changed the task list to ts,
\* leaving the active index idx; `op` names the slot and `detail` its case
RefreshAndSave(op, detail, ts, idx) ==
    /\ tasks' = ts
    /\ current_task_index' = idx
    /\ pending' = NoPending
    /\ IF DisplayRaises(ts)
       THEN /\ crashed' = TRUE
            /\ UNCHANGED <<items, file>>
            /\ last' = Observed("crash", "none", FALSE, "")
       ELSE /\ items' = DisplayItems(ts)
            /\ \/ /\ crashed' = FALSE
                  /\ file' = SaveData(focus_time_min, short_break_time_min,
                                      long_break_time_min, long_break_interval,
                                      dark_mode_enabled, ts)
                  /\ last' = Observed(op, "none", FALSE, detail)
               \/ /\ SaveFails
                  /\ last' = Observed("save_failed", "none", FALSE, op)

\* a slot that returns silently, returns after a QMessageBox.warning, or raises,
\* before it changed anything
Returns(op) ==
    /\ pending' = NoPending
    /\ last' = Observed(op, "none", FALSE, "")
    /\ UNCHANGED <<taskVars, crashed, file>>
Warns(op) ==
    /\ pending' = NoPending
    /\ last' = Observed(op, "none", FALSE, "warning")
    /\ UNCHANGED <<taskVars, crashed, file>>
Raises ==
    /\ crashed' = TRUE
    /\ last' = Observed("crash", "none", FALSE, "")
    /\ UNCHANGED <<taskVars, pending, file>>

\* _add_task: the add button, or return pressed in the task line edit
AddTask(text, estimated) ==
    LET task_text == Strip(text) IN
    /\ Idle
    /\ pure_focus_completions' = -1
    /\ UNCHANGED <<settingsVars, dark_mode_enabled, sessionVars>>
    /\ IF task_text = ""
       THEN Returns("add_task_rejected")
       ELSE /\ Len(tasks) < MaxTasks
            /\ RefreshAndSave("add_task", "",
                              Append(tasks, TaskDict(task_text, estimated, 0, FALSE)),
                              current_task_index)

\* _edit_selected_task up to dialog.exec(): a double click or the context menu on the
\* item in row `row`
EditSelectedTaskOpen(row) ==
    /\ Idle
    /\ row \in Positions(items)
    /\ pure_focus_completions' = -1
    /\ UNCHANGED <<settingsVars, dark_mode_enabled, sessionVars>>
    /\ IF ~(0 <= row /\ row < Len(tasks))
       THEN Returns("edit_no_task")
       ELSE IF ~IsDict(At(tasks, row))
       THEN Raises
       ELSE /\ pending' = [NoPending EXCEPT !.kind = "edit", !.row = row]
            /\ last' = Observed("edit_open", "none", FALSE, "")
            /\ UNCHANGED <<taskVars, crashed, file>>

\* the task an accepted edit leaves
EditedNeverReopens(task, new_text, new_est) ==
    [task EXCEPT !.text = new_text, !.estimated = new_est]
EditedReopensAtEqual(task, new_text, new_est) ==
    [task EXCEPT !.text = new_text, !.estimated = new_est,
                 !.done = IF task.done /\ task.completed <= new_est THEN FALSE ELSE task.done]
Edited(task, new_text, new_est) ==
    [task EXCEPT !.text = new_text, !.estimated = new_est,
                 !.done = IF task.done /\ task.completed < new_est THEN FALSE ELSE task.done]

\* _edit_selected_task after dialog.exec(): the dialog closes
EditSelectedTaskClose(accepted, text, new_est) ==
    LET new_text == Strip(text) IN
    /\ ~crashed
    /\ pending.kind = "edit"
    /\ pure_focus_completions' = -1
    /\ UNCHANGED <<settingsVars, dark_mode_enabled, sessionVars>>
    /\ IF ~accepted
       THEN Returns("edit_cancelled")
       ELSE IF new_text = ""
       THEN Warns("edit_rejected")
       ELSE RefreshAndSave("edit_task",
                           IF ~tasks[pending.row + 1].done THEN ""
                           ELSE IF tasks[pending.row + 1].completed < new_est
                                THEN "done_estimate_raised"
                                ELSE "done_estimate_not_raised",
                           [tasks EXCEPT ![pending.row + 1] =
                               Edited(tasks[pending.row + 1], new_text, new_est)],
                           current_task_index)

\* _delete_selected_tasks up to QMessageBox.question: the Delete key or the context
\* menu, with the items of `rows` selected
DeleteSelectedTasksOpen(rows) ==
    /\ Idle
    /\ rows \in (SUBSET Positions(items)) \ {{}}
    /\ pure_focus_completions' = -1
    /\ pending' = [NoPending EXCEPT !.kind = "delete", !.rows = rows]
    /\ last' = Observed("delete_open", "none", FALSE, "")
    /\ UNCHANGED <<settingsVars, dark_mode_enabled, sessionVars, taskVars, crashed, file>>

SetMax(S) == CHOOSE x \in S : \A y \in S : y <= x

\* the loop over rows_to_delete, highest row first: the list and the active index left
RECURSIVE DeleteRowsKeepingIndex(_, _, _)
DeleteRowsKeepingIndex(ts, idx, rows) ==
    IF rows = {} THEN [tasks |-> ts, index |-> idx]
    ELSE LET row == SetMax(rows) IN
         IF 0 <= row /\ row < Len(ts)
         THEN DeleteRowsKeepingIndex(DelAt(ts, row), idx, rows \ {row})
         ELSE DeleteRowsKeepingIndex(ts, idx, rows \ {row})
RECURSIVE DeleteRows(_, _, _)
DeleteRows(ts, idx, rows) ==
    IF rows = {} THEN [tasks |-> ts, index |-> idx]
    ELSE LET row == SetMax(rows) IN
         IF 0 <= row /\ row < Len(ts)
         THEN DeleteRows(DelAt(ts, row), IF row = idx THEN None ELSE idx, rows \ {row})
         ELSE DeleteRows(ts, idx, rows \ {row})

\* _delete_selected_tasks after QMessageBox.question: the confirmation closes.  A
\* display refresh in between deleted the captured QListWidgetItems, and row(item)
\* on one of them raises RuntimeError
DeleteSelectedTasksClose(yes) ==
    LET left == DeleteRows(tasks, current_task_index, pending.rows) IN
    /\ ~crashed
    /\ pending.kind = "delete"
    /\ pure_focus_completions' = -1
    /\ UNCHANGED <<settingsVars, dark_mode_enabled, sessionVars>>
    /\ IF ~yes
       THEN Returns("delete_cancelled")
       ELSE IF pending.stale
       THEN Raises
       ELSE RefreshAndSave("delete_tasks",
                           IF current_task_index \notin pending.rows THEN ""
                           ELSE IF Cardinality(pending.rows) > 1
                                THEN "active_and_others_selected"
                                ELSE "active_selected",
                           left.tasks, left.index)

\* _task_item_clicked: a left click on the item in row `row`
TaskItemClicked(row) ==
    LET index == At(items, row) IN
    /\ Idle
    /\ row \in Positions(items)
    /\ pure_focus_completions' = -1
    /\ current_task_index' = index
    /\ IF 0 <= index /\ index < Len(tasks) /\ ~IsDict(At(tasks, index))
       THEN /\ crashed' = TRUE
            /\ last' = Observed("crash", "none", FALSE, "")
       ELSE /\ crashed' = FALSE
            /\ last' = Observed("task_clicked", "none", FALSE, "")
    /\ UNCHANGED <<settingsVars, dark_mode_enabled, sessionVars, tasks, items, pending,
                   file>>

\* the task a changed check state leaves
CheckedKeepingCompleted(task, is_checked) == [task EXCEPT !.done = is_checked]
Checked(task, is_checked) ==
    [task EXCEPT !.done = is_checked,
                 !.completed = IF is_checked THEN task.estimated ELSE task.completed]

\* _task_check_state_changed: the checkbox of the widget in row `row` changes to
\* is_checked
TaskCheckStateChanged(row, is_checked) ==
    /\ Idle
    /\ row \in Positions(tasks)
    /\ pure_focus_completions' = -1
    /\ UNCHANGED <<settingsVars, dark_mode_enabled, sessionVars>>
    /\ IF ~IsDict(At(tasks, row))
       THEN Raises
       ELSE IF At(tasks, row).done = is_checked
       THEN Returns("check_unchanged")
       ELSE LET ts == [tasks EXCEPT ![row + 1] = Checked(At(tasks, row), is_checked)]
            IN  /\ tasks' = ts
                /\ UNCHANGED <<current_task_index, items, pending>>
                /\ \/ /\ crashed' = FALSE
                      /\ file' = SaveData(focus_time_min, short_break_time_min,
                                          long_break_time_min, long_break_interval,
                                          dark_mode_enabled, ts)
                      /\ last' = Observed("check_changed", "none", FALSE,
                                           IF row = current_task_index THEN "active"
                                           ELSE "")
                   \/ /\ SaveFails
                      /\ last' = Observed("save_failed", "none", FALSE,
                                           "check_changed")

\* QListWidget's internal move of the item in row `from` to row `to`
InsertAt(s, i, x) == SubSeq(s, 1, i) \o <<x>> \o SubSeq(s, i + 1, Len(s))
MoveItem(s, from, to) == InsertAt(DelAt(s, from), to, At(s, from))

\* what dropEvent appends to new_tasks_order for the rows as moved: item.data(UserRole),
\* which _update_task_list_display set to the row's position
NewTasksOrder(ts, moved) == [k \in 1 .. Len(moved) |-> IntEntry(moved[k])]

\* DraggableListWidget.dropEvent: the item in row `from` is dropped at row `to`.  The
\* list widget's parent is the to-do container it was laid out in, which has no
\* _save_data, so nothing is saved
DropEvent(from, to) ==
    /\ Idle
    /\ from \in Positions(items)
    /\ to \in Positions(items)
    /\ pure_focus_completions' = -1
    /\ items' = MoveItem(items, from, to)
    /\ tasks' = NewTasksOrder(tasks, items')
    /\ last' = Observed("drop", "none", FALSE, "")
    /\ UNCHANGED <<settingsVars, dark_mode_enabled, sessionVars, current_task_index,
                   pending, crashed, file>>

\* --------------------------------------------------------------- specifications
Next ==
    \/ ToggleTimer
    \/ UpdateTimer
    \/ SkipCurrentPhase
    \/ \E mode \in States : SetMode(mode)
    \/ \E accepted \in BOOLEAN, form \in SettingsForms, interval \in Intervals :
           OpenSettingsDialog(accepted, form[1], form[2], form[3], interval)
    \/ ToggleDarkMode
    \/ \E text \in InputTexts, estimated \in Estimates : AddTask(text, estimated)
    \/ \E row \in Positions(items) : EditSelectedTaskOpen(row)
    \/ \E accepted \in BOOLEAN, text \in InputTexts, new_est \in Estimates :
           EditSelectedTaskClose(accepted, text, new_est)
    \/ \E rows \in SUBSET Positions(items) : DeleteSelectedTasksOpen(rows)
    \/ \E yes \in BOOLEAN : DeleteSelectedTasksClose(yes)
    \/ \E row \in Positions(items) : TaskItemClicked(row)
    \/ \E row \in Positions(tasks), is_checked \in BOOLEAN :
           TaskCheckStateChanged(row, is_checked)
    \/ \E from, to \in Positions(items) : DropEvent(from, to)

Spec == Init /\ [][Next]_vars

\* the session state machine on its own: the timer, the skip and mode buttons, the
\* settings and the dark mode, with no task made active
NextSession ==
    \/ ToggleTimer
    \/ UpdateTimer
    \/ SkipCurrentPhase
    \/ \E mode \in States : SetMode(mode)
    \/ \E accepted \in BOOLEAN, form \in SettingsForms, interval \in Intervals :
           OpenSettingsDialog(accepted, form[1], form[2], form[3], interval)
    \/ ToggleDarkMode

SpecSession == Init /\ [][NextSession]_vars

\* the task store on its own: the slots of the task list other than the drop, with
\* phases completed by the skip button, under the shortest long-break interval
NextTasks ==
    \/ SkipCurrentPhase
    \/ \E text \in InputTexts, estimated \in Estimates : AddTask(text, estimated)
    \/ \E row \in Positions(items) : EditSelectedTaskOpen(row)
    \/ \E accepted \in BOOLEAN, text \in InputTexts, new_est \in Estimates :
           EditSelectedTaskClose(accepted, text, new_est)
    \/ \E rows \in SUBSET Positions(items) : DeleteSelectedTasksOpen(rows)
    \/ \E yes \in BOOLEAN : DeleteSelectedTasksClose(yes)
    \/ \E row \in Positions(items) : TaskItemClicked(row)
    \/ \E row \in Positions(tasks), is_checked \in BOOLEAN :
           TaskCheckStateChanged(row, is_checked)

InitShortCycle == Init /\ long_break_interval = 2

SpecTasks == InitShortCycle /\ [][NextTasks]_vars

\* drag and drop in the task list, and the slots that read the task list after it
NextReorder ==
    \/ SkipCurrentPhase
    \/ \E text \in InputTexts, estimated \in Estimates : AddTask(text, estimated)
    \/ \E row \in Positions(items) : TaskItemClicked(row)
    \/ \E row \in Positions(tasks), is_checked \in BOOLEAN :
           TaskCheckStateChanged(row, is_checked)
    \/ \E from, to \in Positions(items) : DropEvent(from, to)

SpecReorder == InitShortCycle /\ [][NextReorder]_vars

\* the countdown with an active task: the session state machine, with the clicks on
\* the task list
NextCountdown ==
    \/ ToggleTimer
    \/ UpdateTimer
    \/ SkipCurrentPhase
    \/ \E mode \in States : SetMode(mode)
    \/ \E accepted \in BOOLEAN, form \in SettingsForms, interval \in Intervals :
           OpenSettingsDialog(accepted, form[1], form[2], form[3], interval)
    \/ \E row \in Positions(items) : TaskItemClicked(row)

SpecCountdown == Init /\ [][NextCountdown]_vars

\* the stored data: launches on the files the first launch can find and on the files
\* the program leaves, with slots that change the settings and the task list and
\* save, and the drop, which changes the task list and does not
NextStore ==
    \/ Restart
    \/ \E accepted \in BOOLEAN, form \in SettingsForms, interval \in Intervals :
           OpenSettingsDialog(accepted, form[1], form[2], form[3], interval)
    \/ ToggleDarkMode
    \/ \E text \in InputTexts, estimated \in Estimates : AddTask(text, estimated)
    \/ \E row \in Positions(tasks), is_checked \in BOOLEAN :
           TaskCheckStateChanged(row, is_checked)
    \/ \E from, to \in Positions(items) : DropEvent(from, to)

SpecStore == InitFromStore /\ [][NextStore]_vars

\* the modal dialogs of the task list while the timer runs: the edit dialog and the
\* delete confirmation, opened and closed between the ticks of a countdown
NextDialogs ==
    \/ ToggleTimer
    \/ UpdateTimer
    \/ \E row \in Positions(items) : EditSelectedTaskOpen(row)
    \/ \E accepted \in BOOLEAN, text \in InputTexts, new_est \in Estimates :
           EditSelectedTaskClose(accepted, text, new_est)
    \/ \E rows \in SUBSET Positions(items) : DeleteSelectedTasksOpen(rows)
    \/ \E yes \in BOOLEAN : DeleteSelectedTasksClose(yes)
    \/ \E row \in Positions(items) : TaskItemClicked(row)

SpecDialogs == InitShortCycle /\ [][NextDialogs]_vars

\* a countdown nobody attends: the user picks a task and presses START while the
\* timer is stopped, and does nothing while it runs. UpdateTimer takes the
\* "Task Completed!" box of _update_task_progress and the user's OK in one step,
\* which no other slot can interleave (the QTimer is stopped and the box is modal);
\* here the same slot is taken in two steps, so that the wait for OK is a state.
CompletesActiveTask ==
    /\ current_state = "pomodoro"
    /\ UpdateTaskProgress(tasks, current_task_index).notified

\* _update_timer at 0 up to QMessageBox.information in _update_task_progress: the
\* sound is played, the QTimer stopped, the task credited and marked done, and
\* exec() of the box waits for OK
TaskCompletedBoxOpens ==
    LET progress == UpdateTaskProgress(tasks, current_task_index) IN
    /\ ~crashed
    /\ timer_active
    /\ pending.kind = "none"
    /\ current_time_left = 0
    /\ CompletesActiveTask
    /\ completed_pomodoros_in_cycle < MaxCycleCount
    /\ CreditWithinBound
    /\ is_running' = FALSE
    /\ timer_active' = FALSE
    /\ tasks' = progress.tasks
    /\ pending' = [NoPending EXCEPT !.kind = "task_completed"]
    /\ last' = Observed("task_completed_box", SoundFor(current_state), TRUE,
                        current_state)
    /\ UNCHANGED <<settingsVars, dark_mode_enabled, current_time_left, current_state,
                   completed_pomodoros_in_cycle, current_task_index, items, crashed,
                   file, pure_focus_completions>>

\* the user presses OK: the rest of _update_task_progress (the active task cleared,
\* the display refreshed, the save) and of _advance_state_machine
TaskCompletedBoxClosed ==
    LET count == completed_pomodoros_in_cycle + 1
        state == BreakAfterFocus(count, long_break_interval)
    IN
    /\ ~crashed
    /\ pending.kind = "task_completed"
    /\ pending' = NoPending
    /\ current_task_index' = None
    /\ UNCHANGED <<settingsVars, dark_mode_enabled, is_running, timer_active, tasks>>
    /\ IF DisplayRaises(tasks)
       THEN /\ crashed' = TRUE
            /\ items' = <<>>
            /\ UNCHANGED <<current_state, completed_pomodoros_in_cycle,
                           current_time_left, file>>
            /\ last' = Observed("crash", "focus_end", TRUE, current_state)
            /\ pure_focus_completions' = -1
       ELSE /\ items' = DisplayItems(tasks)
            /\ \/ /\ crashed' = FALSE
                  /\ file' = SaveData(focus_time_min, short_break_time_min,
                                      long_break_time_min, long_break_interval,
                                      dark_mode_enabled, tasks)
                  /\ completed_pomodoros_in_cycle' = count
                  /\ current_state' = state
                  /\ current_time_left' = PhaseDuration(state)
                  /\ last' = Observed("expire", "focus_end", TRUE, current_state)
                  /\ pure_focus_completions' = PureAfter(TRUE)
               \/ /\ SaveFails
                  /\ UNCHANGED <<current_state, completed_pomodoros_in_cycle,
                                 current_time_left>>
                  /\ last' = Observed("save_failed", "focus_end", TRUE, current_state)
                  /\ pure_focus_completions' = -1

\* the QTimer's timeout in the unattended countdown
UpdateTimerUnattended ==
    IF pending.kind = "none" /\ current_time_left = 0 /\ CompletesActiveTask
    THEN TaskCompletedBoxOpens
    ELSE UpdateTimer

\* START pressed while the timer is stopped
StartTimer ==
    /\ ~is_running
    /\ ToggleTimer

\* a click on a task that is not done, while the timer is stopped
PickTask(row) ==
    /\ ~is_running
    /\ row \in Positions(items)
    /\ ~At(tasks, At(items, row)).done
    /\ TaskItemClicked(row)

NextUnattended ==
    \/ StartTimer
    \/ \E row \in Positions(items) : PickTask(row)
    \/ UpdateTimerUnattended
    \/ TaskCompletedBoxClosed

\* the event loop delivers the timeout of an active QTimer: the tick is weakly fair.
\* Nothing makes the user press START, pick a task or press OK.
SpecUnattended ==
    InitShortCycle /\ [][NextUnattended]_vars /\ WF_vars(UpdateTimerUnattended)

\* ======================================================================= claims
Advanced(op) == op \in {"skip", "expire"}
PositionOf(s, x) == CHOOSE k \in Positions(s) : At(s, k) = x
Occurrences(s, x) == Cardinality({k \in 1 .. Len(s) : s[k] = x})
IsPermutationOf(s, t) ==
    /\ Len(s) = Len(t)
    /\ \A k \in 1 .. Len(t) : Occurrences(s, t[k]) = Occurrences(t, t[k])

\* C1: completing a focus phase (natural expiry or skip) leads to long_break exactly
\* when the counter after its increment, completed_pomodoros_in_cycle + 1, is a
\* multiple of long_break_interval, and to short_break otherwise.
C1_FocusRoutesByIncrementedCount ==
    [][(current_state = "pomodoro" /\ Advanced(last'.op)) =>
          current_state' =
              IF (completed_pomodoros_in_cycle + 1) % long_break_interval = 0
              THEN "long_break" ELSE "short_break"]_vars
\* a natural expiry has led from focus into a long break, with a counter beyond one
\* interval
C1_Witness ==
    /\ last.op = "expire"
    /\ last.detail = "pomodoro"
    /\ current_state = "long_break"
    /\ completed_pomodoros_in_cycle = 2 * long_break_interval

\* C2 as claimed: when a completed focus phase leads into long_break, the counter is 0
\* in the resulting state.
C2_Claimed_CounterZeroOnEnteringLongBreak ==
    [][(current_state = "pomodoro" /\ Advanced(last'.op)
            /\ current_state' = "long_break") =>
          completed_pomodoros_in_cycle' = 0]_vars
\* C2 as amended: when a completed focus phase leads into long_break, the counter is
\* the incremented count, a positive multiple of long_break_interval; it is reset to 0
\* when a phase completion leaves the long break.
C2_CounterResetOnLeavingLongBreak ==
    [][Advanced(last'.op) =>
          /\ (current_state = "pomodoro" /\ current_state' = "long_break") =>
                 /\ completed_pomodoros_in_cycle' = completed_pomodoros_in_cycle + 1
                 /\ completed_pomodoros_in_cycle' > 0
                 /\ completed_pomodoros_in_cycle' % long_break_interval = 0
          /\ current_state = "long_break" =>
                 /\ current_state' = "pomodoro"
                 /\ completed_pomodoros_in_cycle' = 0
          /\ current_state = "short_break" =>
                 completed_pomodoros_in_cycle' = completed_pomodoros_in_cycle]_vars
\* a long break entered from focus has just been left by a phase completion
C2_Witness ==
    /\ Advanced(last.op)
    /\ last.detail = "long_break"
    /\ current_state = "pomodoro"
    /\ completed_pomodoros_in_cycle = 0

\* C3: in a run from the initial state that consists of phase completions only, the
\* k-th completed focus phase leads to long_break when k is a multiple of
\* long_break_interval and to short_break otherwise, in the first cycle and in every
\* later one, and every completed break leads back to focus.
C3_CyclePattern ==
    [][(Advanced(last'.op) /\ pure_focus_completions' >= 0) =>
          IF current_state = "pomodoro"
          THEN current_state' =
                   IF pure_focus_completions' % long_break_interval = 0
                   THEN "long_break" ELSE "short_break"
          ELSE current_state' = "pomodoro"]_vars
\* the second cycle of such a run has reached its long break
C3_Witness ==
    /\ pure_focus_completions = 2 * long_break_interval
    /\ current_state = "long_break"
    /\ last.detail = "pomodoro"

\* C4 as claimed: a focus completion credits the active task: nothing changes if
\* current_task_index is None or the task it refers to is done; otherwise that task's
\* completed grows by exactly 1, and it becomes done, is notified and the index is
\* cleared if completed >= estimated, else it stays not done and the index stays.
C4_Claimed_CreditActiveTask ==
    [][(current_state = "pomodoro" /\ Advanced(last'.op)) =>
          IF current_task_index = None
             \/ (current_task_index < Len(tasks) /\ IsDict(At(tasks, current_task_index))
                    /\ At(tasks, current_task_index).done)
          THEN tasks' = tasks /\ current_task_index' = current_task_index
                  /\ ~last'.notified
          ELSE /\ current_task_index < Len(tasks)
               /\ IsDict(At(tasks, current_task_index))
               /\ LET before == At(tasks, current_task_index)
                      after == At(tasks', current_task_index)
                  IN  /\ after.completed = before.completed + 1
                      /\ after.done = (after.completed >= after.estimated)
                      /\ last'.notified = after.done
                      /\ current_task_index' =
                             IF after.done THEN None ELSE current_task_index]_vars

\* C5: while the timer is running, a tick never increases current_time_left, and
\* current_time_left is never negative.  (The tick that completes the phase stops the
\* timer and loads the next phase's full duration.)
C5_CountdownMonotone ==
    /\ [](current_time_left >= 0)
    /\ [][(timer_active /\ timer_active' /\ last'.op \in {"tick", "expire"}) =>
             current_time_left' <= current_time_left]_vars
\* a running countdown has been ticked down to its last second
C5_Witness ==
    /\ last.op = "tick"
    /\ timer_active
    /\ current_time_left = 1

\* C6 as claimed: the tick that brings current_time_left to 0 also stops the timer and
\* advances, so no tick leaves a running timer at 0.
C6_Claimed_NoRunningZeroAfterTick ==
    ~(last.op = "tick" /\ is_running /\ current_time_left = 0)

\* C7 as claimed: a drop leaves the task list a permutation of the task records it
\* held.
C7_Claimed_DropPermutesTasks ==
    [][last'.op = "drop" => IsPermutationOf(tasks', tasks)]_vars

\* C8 as claimed: a drop leaves current_task_index at the new position of the task it
\* referred to, and None if that task cannot be found.
C8_Claimed_DropKeepsReferent ==
    [][(last'.op = "drop" /\ current_task_index # None) =>
          current_task_index' =
              IF current_task_index < Len(items)
              THEN PositionOf(items', At(items, current_task_index))
              ELSE None]_vars

\* C9: a confirmed delete whose selected rows include current_task_index leaves
\* current_task_index None, whatever other rows are selected with it.
C9_DeleteActiveClearsIndex ==
    [][(pending.kind = "delete" /\ last'.op = "delete_tasks"
            /\ current_task_index \in pending.rows) =>
          current_task_index' = None]_vars
\* a confirmed delete of the active row together with another row has cleared the
\* index
C9_Witness ==
    /\ last.op = "delete_tasks"
    /\ last.detail = "active_and_others_selected"
    /\ current_task_index = None

\* C10 as claimed: current_task_index is None or a position of the task list.
C10_Claimed_ActiveIndexInRange ==
    ~crashed =>
        (current_task_index = None
            \/ (0 <= current_task_index /\ current_task_index < Len(tasks)))

\* C11 as claimed: while current_task_index refers to a task T, an add_task and a
\* confirmed delete that does not remove T leave current_task_index at T's position:
\* unchanged by the append, and shifted down by the number of deleted rows above T.
C11_Claimed_ActiveReferentKept ==
    [][(current_task_index # None /\ current_task_index < Len(tasks)) =>
          /\ last'.op = "add_task" => current_task_index' = current_task_index
          /\ (pending.kind = "delete" /\ last'.op = "delete_tasks"
                  /\ current_task_index \notin pending.rows) =>
                 current_task_index' =
                     current_task_index
                         - Cardinality({r \in pending.rows : r < current_task_index})]_vars

\* C12: an accepted edit of a done task leaves it not done exactly when the new
\* estimated exceeds completed, and done otherwise; an accepted edit never changes
\* completed, and gives the task the new estimated.
C12_EditReopensIffEstimateExceedsCompleted ==
    [][(pending.kind = "edit" /\ last'.op = "edit_task") =>
          LET before == At(tasks, pending.row)
              after == At(tasks', pending.row)
          IN  /\ after.completed = before.completed
              /\ before.done => (after.done <=> ~(after.estimated > before.completed))
              /\ \A k \in Positions(tasks) : k # pending.row => At(tasks', k) = At(tasks, k)]_vars
\* a done task has been reopened by an edit that raised its estimated above completed
C12_Witness ==
    /\ last.op = "edit_task"
    /\ last.detail = "done_estimate_raised"
    /\ \E k \in Positions(tasks) :
           ~At(tasks, k).done /\ At(tasks, k).completed < At(tasks, k).estimated
               /\ At(tasks, k).completed > 0
\* a done task has stayed done through an edit that lowered its estimated below completed
C12_WitnessStaysDone ==
    /\ last.op = "edit_task"
    /\ last.detail = "done_estimate_not_raised"
    /\ \E k \in Positions(tasks) :
           At(tasks, k).done /\ At(tasks, k).completed > At(tasks, k).estimated

\* C13 as claimed: an add_task whose text is empty after trimming is reported to the
\* user as an error and leaves the task list unchanged; with a non-empty text it
\* appends exactly one task with completed = 0 and done = FALSE, leaving the earlier
\* tasks and current_task_index unchanged.
C13_Claimed_AddTaskValidates ==
    [][/\ last'.op = "add_task_rejected" =>
              (last'.detail = "warning" /\ tasks' = tasks)
       /\ last'.op = "add_task" =>
              /\ Len(tasks') = Len(tasks) + 1
              /\ SubSeq(tasks', 1, Len(tasks)) = tasks
              /\ tasks'[Len(tasks')].completed = 0
              /\ tasks'[Len(tasks')].done = FALSE
              /\ current_task_index' = current_task_index]_vars

\* C14: a check state change to the value done already has changes nothing and saves
\* nothing; otherwise it changes exactly one task, whose done is flipped and whose
\* completed becomes estimated if it is now done and is kept if not, and the new task
\* list is saved; in neither case does current_task_index change.
C14_SetDone ==
    [][/\ last'.op = "check_unchanged" =>
              (tasks' = tasks /\ file' = file /\ current_task_index' = current_task_index)
       /\ last'.op = "check_changed" =>
              /\ current_task_index' = current_task_index
              /\ file'.tasks = tasks'
              /\ \E row \in Positions(tasks) :
                     LET before == At(tasks, row) IN
                     tasks' = [tasks EXCEPT ![row + 1] =
                                  [before EXCEPT
                                      !.done = ~before.done,
                                      !.completed = IF before.done THEN before.completed
                                                    ELSE before.estimated]]]_vars
\* the active task has been checked done by hand, which set its completed to its
\* estimate of 2, and it is still the active one
C14_Witness ==
    /\ last.op = "check_changed"
    /\ last.detail = "active"
    /\ current_task_index # None
    /\ current_task_index < Len(tasks)
    /\ At(tasks, current_task_index).done
    /\ At(tasks, current_task_index).completed = 2
    /\ At(tasks, current_task_index).estimated = 2

\* C15: _set_mode(target), from any state, leaves the timer stopped, the phase target
\* and current_time_left the configured duration of target; it resets the counter to 0
\* if target is pomodoro and leaves it unchanged otherwise; it changes no task, leaves
\* current_task_index, plays no sound and shows no notification.
C15_SetMode ==
    [][last'.op = "set_mode" =>
          /\ ~is_running'
          /\ ~timer_active'
          /\ current_state' = last'.detail
          /\ UNCHANGED settingsVars
          /\ current_time_left' = PhaseDuration(current_state')
          /\ completed_pomodoros_in_cycle' =
                 IF current_state' = "pomodoro" THEN 0 ELSE completed_pomodoros_in_cycle
          /\ tasks' = tasks
          /\ current_task_index' = current_task_index
          /\ last'.sound = "none"
          /\ ~last'.notified]_vars
\* with a task active and not done, and a focus duration that differs from the break
\* durations, a switch to a break has kept a counter above 0
C15_Witness ==
    /\ last.op = "set_mode"
    /\ last.detail = "long_break"
    /\ completed_pomodoros_in_cycle > 0
    /\ focus_time_min = 2
    /\ current_task_index # None
    /\ current_task_index < Len(tasks)
    /\ ~At(tasks, current_task_index).done

DurationIn(state, fmin, smin, lmin) ==
    SecondsPerMinute * (CASE state = "pomodoro" -> fmin
                          [] state = "short_break" -> smin
                          [] state = "long_break" -> lmin)

\* C16: an accepted settings dialog with valid input, from any phase and whether the
\* timer runs or not, leaves the phase pomodoro, current_time_left the new focus
\* duration in seconds, the counter 0 and the timer stopped; and every later phase
\* completion and mode switch loads the duration the settings then hold for the phase
\* it enters, and a focus completion routes by the interval they hold.
C16_ApplySettings ==
    /\ [][last'.op = "settings_applied" =>
             /\ current_state' = "pomodoro"
             /\ current_time_left' = focus_time_min' * SecondsPerMinute
             /\ completed_pomodoros_in_cycle' = 0
             /\ ~is_running'
             /\ ~timer_active']_vars
    /\ [][(Advanced(last'.op) \/ last'.op = "set_mode") =>
             /\ UNCHANGED settingsVars
             /\ current_time_left' =
                    DurationIn(current_state', focus_time_min, short_break_time_min,
                               long_break_time_min)
             /\ (Advanced(last'.op) /\ current_state = "pomodoro") =>
                    (current_state' = "long_break"
                        <=> completed_pomodoros_in_cycle' % long_break_interval = 0)]_vars
\* settings with a focus duration of 2 minutes and an interval of 3 have just been
\* applied
C16_Witness ==
    /\ last.op = "settings_applied"
    /\ focus_time_min = 2
    /\ long_break_interval = 3
    /\ current_state = "pomodoro"
    /\ current_time_left = 2 * SecondsPerMinute
\* after such settings were applied, a focus phase of the new duration was entered and
\* counted down into its second minute
C16_WitnessLater ==
    /\ last.op = "tick"
    /\ focus_time_min = 2
    /\ current_state = "pomodoro"
    /\ current_time_left = SecondsPerMinute - 1

\* C17 as claimed: a settings dialog accepted with malformed input changes nothing:
\* settings, phase, current_time_left, counter, is_running, tasks and
\* current_task_index are as before the attempt.
C17_Claimed_RejectedSettingsChangeNothing ==
    [][last'.op = "settings_rejected" =>
          UNCHANGED <<settingsVars, sessionVars, tasks, current_task_index>>]_vars

\* the session, the task list, the active index and the cues a slot has left
Outcome ==
    [sound |-> last.sound,
     is_running |-> is_running,
     timer_active |-> timer_active,
     current_state |-> current_state,
     current_time_left |-> current_time_left,
     completed_pomodoros_in_cycle |-> completed_pomodoros_in_cycle,
     tasks |-> tasks,
     current_task_index |-> current_task_index,
     notified |-> last.notified]

\* C18: from any state, a skip leaves the phase, current_time_left, is_running, the
\* counter, the task list and current_task_index, and plays the sound, that the natural
\* expiry of the same phase leaves and plays from the same session and task list,
\* the credit of the active task included; and every natural expiry leaves them so.
C18_SkipIsForcedExpiry ==
    [][Advanced(last'.op) =>
          Outcome' = NaturalExpiry(current_state, completed_pomodoros_in_cycle, tasks,
                                   current_task_index)]_vars
\* a skip of a focus phase has played the focus-end sound, credited the active task,
\* made it done at completed = 2, notified, and cleared the index
C18_Witness ==
    /\ last.op = "skip"
    /\ last.detail = "pomodoro"
    /\ last.sound = "focus_end"
    /\ last.notified
    /\ current_task_index = None
    /\ \E k \in Positions(tasks) : At(tasks, k).done /\ At(tasks, k).completed = 2
\* a natural expiry of a focus phase has credited the active task
C18_WitnessExpiry ==
    /\ last.op = "expire"
    /\ last.detail = "pomodoro"
    /\ current_task_index # None
    /\ At(tasks, current_task_index).completed = 1

\* C19 as claimed: toggling dark mode flips dark_mode_enabled, saves it, and leaves the
\* phase, current_time_left, is_running, the counter, the task list and
\* current_task_index unchanged.
C19_Claimed_DarkModePresentationOnly ==
    [][last'.op = "toggle_dark_mode" =>
          /\ dark_mode_enabled' = ~dark_mode_enabled
          /\ file'.settings.dark_mode_enabled = dark_mode_enabled'
          /\ UNCHANGED <<sessionVars, tasks, current_task_index>>]_vars

\* C20 as claimed: a save that fails inside a slot is not fatal, and when it is the save
\* of the credit given by a focus completion, the phase, the counter, the task list and
\* current_task_index end up as a natural expiry with a successful save leaves them.
C20_Claimed_FailingSaveNotFatal ==
    [][last'.op = "save_failed" =>
          /\ ~crashed'
          /\ last'.detail = "pomodoro" =>
                 LET expiry == NaturalExpiry(current_state, completed_pomodoros_in_cycle,
                                             tasks, current_task_index)
                 IN  /\ current_state' = expiry.current_state
                     /\ completed_pomodoros_in_cycle' = expiry.completed_pomodoros_in_cycle
                     /\ tasks' = expiry.tasks
                     /\ current_task_index' = expiry.current_task_index]_vars

\* the settings and the task list in memory, field by field
Memory ==
    [settings |-> [focus_time_min |-> focus_time_min,
                   short_break_time_min |-> short_break_time_min,
                   long_break_time_min |-> long_break_time_min,
                   long_break_interval |-> long_break_interval,
                   dark_mode_enabled |-> dark_mode_enabled],
     tasks |-> tasks]
HardcodedDefaults ==
    [settings |-> [focus_time_min |-> 25, short_break_time_min |-> 5,
                   long_break_time_min |-> 15, long_break_interval |-> 4,
                   dark_mode_enabled |-> FALSE],
     tasks |-> <<>>]

C21_WitnessMissing ==
    /\ last.op = "init"
    /\ last.detail = "FileNotFoundError"
    /\ file = HardcodedDefaults

\* C22: in every reachable state, loading what a save of the settings and the task
\* list in memory writes gives back the same five settings and the same task list;
\* and a launch on a file that holds the state in memory leaves that state in memory.
C22_SaveLoadRoundTrip ==
    /\ [](LET loaded == LoadData(SaveData(focus_time_min, short_break_time_min,
                                          long_break_time_min, long_break_interval,
                                          dark_mode_enabled, tasks))
          IN  /\ loaded.settings = Memory.settings
              /\ loaded.tasks = Memory.tasks
              /\ ~loaded.saves)
    /\ [][(file = Memory /\ last'.op = "init") => Memory' = Memory]_vars
\* a launch has loaded settings that differ from every default, with dark mode on, and
\* two tasks of which the first is done and the second is not
C22_Witness ==
    /\ last.op = "init"
    /\ last.detail = ""
    /\ dark_mode_enabled
    /\ focus_time_min = 2
    /\ long_break_interval = 3
    /\ Len(tasks) = 2
    /\ IsDict(tasks[1]) /\ tasks[1].done /\ tasks[1].completed = 2
    /\ IsDict(tasks[2]) /\ ~tasks[2].done /\ tasks[2].estimated = 1
    /\ file = Memory

\* the slots that change the settings or the task list, as they return
MutatingOps ==
    {"add_task", "edit_task", "delete_tasks", "check_changed", "drop",
     "settings_applied", "toggle_dark_mode"}

\* C23 as claimed: when a slot that changed the settings or the task list returns,
\* and when a phase completion that credited a task returns, the file holds the
\* settings and the task list in memory.
C23_Claimed_SavedAfterEveryMutation ==
    [][(last'.op \in MutatingOps \/ (Advanced(last'.op) /\ tasks' # tasks)) =>
          file' = Memory']_vars

\* C24 as claimed: no timer tick, and so no phase completion and no task credit, is
\* processed while an edit dialog or a delete confirmation is open, that is between
\* the start and the end of _edit_selected_task or _delete_selected_tasks.
C24_Claimed_NoTickInsideHandler ==
    [][pending.kind # "none" => last'.op \notin {"tick", "expire"}]_vars
\* C24, its consequence as claimed: a confirmed delete finds the rows it captured when
\* it opened the confirmation and applies its change.
C24_Claimed_CapturedSelectionStillValid ==
    [][(pending.kind = "delete" /\ pending.stale) => last'.op # "crash"]_vars

\* C25: a phase completion (natural expiry or skip) leaves current_time_left at the
\* configured duration of the phase it enters and the timer stopped: is_running is
\* FALSE and no tick is scheduled.
C25_PhaseEnteredStopped ==
    [][Advanced(last'.op) =>
          /\ current_state' # current_state
          /\ current_time_left' =
                 DurationIn(current_state', focus_time_min', short_break_time_min',
                            long_break_time_min')
          /\ ~is_running'
          /\ ~timer_active']_vars
\* a natural expiry of a 2-minute focus phase has entered a 1-minute break, stopped
C25_Witness ==
    /\ last.op = "expire"
    /\ last.detail = "pomodoro"
    /\ focus_time_min = 2
    /\ current_state \in {"short_break", "long_break"}
    /\ current_time_left = SecondsPerMinute
    /\ ~is_running

\* C26: the START / PAUSE button negates is_running and schedules the tick exactly
\* when is_running becomes TRUE; it leaves the phase, current_time_left, the counter,
\* the task list and current_task_index unchanged.
C26_ToggleTimerFrame ==
    [][last'.op = "toggle_timer" =>
          /\ is_running' = ~is_running
          /\ timer_active' = is_running'
          /\ UNCHANGED <<current_state, current_time_left, completed_pomodoros_in_cycle,
                         tasks, current_task_index>>]_vars
\* a countdown has been paused in its middle
C26_Witness ==
    /\ last.op = "toggle_timer"
    /\ ~is_running
    /\ 0 < current_time_left
    /\ current_time_left < PhaseDuration(current_state)
\* a countdown paused in its middle has been resumed
C26_WitnessResumed ==
    /\ last.op = "toggle_timer"
    /\ is_running
    /\ 0 < current_time_left
    /\ current_time_left < PhaseDuration(current_state)

\* C27: in every reachable state of the task store, started from an empty list or from
\* a stored list that satisfies it, every task with done = TRUE has
\* completed >= estimated, whatever adds, edits, check state changes, deletes and
\* credits produced it.
C27_DoneImpliesCompleted ==
    \A k \in Positions(tasks) :
        (IsDict(At(tasks, k)) /\ At(tasks, k).done) =>
            At(tasks, k).completed >= At(tasks, k).estimated
\* two done tasks: one whose estimate an edit lowered below its completed count, and
\* one at completed = estimated
C27_Witness ==
    /\ Len(tasks) = 2
    /\ \E j, k \in Positions(tasks) :
           /\ At(tasks, j).done /\ At(tasks, j).completed > At(tasks, j).estimated
           /\ At(tasks, k).done /\ At(tasks, k).completed = At(tasks, k).estimated
\* a credit given by a skip has made a task done at completed = estimated = 2
C27_WitnessCredited ==
    /\ last.op = "skip"
    /\ last.notified
    /\ \E k \in Positions(tasks) :
           At(tasks, k).done /\ At(tasks, k).completed = 2 /\ At(tasks, k).estimated = 2

\* C28: in every reachable state is_running is TRUE exactly when the QTimer is active.
C28_RunningIffTimerActive ==
    is_running <=> timer_active
\* a natural expiry, which only a running timer delivers, has stopped the timer
C28_Witness ==
    /\ last.op = "expire"
    /\ ~is_running
    /\ ~timer_active
\* a mode switch made with a counter above 0 has left the timer stopped
C28_WitnessSetMode ==
    /\ last.op = "set_mode"
    /\ ~is_running
    /\ ~timer_active
    /\ completed_pomodoros_in_cycle > 0

\* C29 as claimed: in every reachable state the counter is between 0 and
\* long_break_interval.
C29_Claimed_CounterWithinInterval ==
    /\ 0 <= completed_pomodoros_in_cycle
    /\ completed_pomodoros_in_cycle <= long_break_interval

\* C30: a completed focus phase either changes no task, or changes exactly the task at
\* current_task_index, raising its completed by exactly 1 and setting done by
\* completed >= estimated, and leaves every other task and the length of the list
\* unchanged; a completed break changes no task and not current_task_index.
C30_SingleCredit ==
    [][Advanced(last'.op) =>
          IF current_state = "pomodoro"
          THEN \/ tasks' = tasks
               \/ /\ current_task_index \in Positions(tasks)
                  /\ LET before == At(tasks, current_task_index) IN
                     tasks' = [tasks EXCEPT ![current_task_index + 1] =
                                  [before EXCEPT
                                      !.completed = before.completed + 1,
                                      !.done = (before.completed + 1 >= before.estimated)]]
          ELSE tasks' = tasks /\ current_task_index' = current_task_index]_vars
\* with two tasks in the list, a focus completion has credited the second and left the
\* first, which was credited before, as it was
C30_Witness ==
    /\ last.op = "skip"
    /\ last.detail = "pomodoro"
    /\ Len(tasks) = 2
    /\ current_task_index = 1
    /\ tasks[2].completed = 1
    /\ ~tasks[2].done
    /\ tasks[1].completed = 1
    /\ ~tasks[1].done

\* the phase p has been completed by the timer
PhaseCompleted(p) ==
    /\ last.op = "expire"
    /\ last.detail = p
    /\ current_state # p
    /\ ~is_running
    /\ current_time_left = PhaseDuration(current_state)
\* C31: once the timer is started and the user does nothing further, fair delivery
\* of the ticks leads to the completion of the phase: the phase has advanced,
\* is_running is false and current_time_left is the new phase's full duration.
\* In the code the tick that completes the active task's last pomodoro stops in the
\* "Task Completed!" box until the user presses OK, and a save that fails after a
\* credit leaves the slot before the phase is changed.
C31_Claimed_StartedPhaseCompletes ==
    \A p \in States :
        (is_running /\ timer_active /\ current_state = p) ~> PhaseCompleted(p)
\* the part of C31 the code keeps: a phase started with no active task completes
C31_PhaseWithoutActiveTaskCompletes ==
    \A p \in States :
        (is_running /\ timer_active /\ current_state = p /\ current_task_index = None)
            ~> PhaseCompleted(p)
\* C31 with the failing save set aside: the phase completes or the process has
\* aborted. The box alone refutes it.
C31_Claimed_CompletesUnlessAborted ==
    \A p \in States :
        (is_running /\ timer_active /\ current_state = p)
            ~> (PhaseCompleted(p) \/ crashed)
\* the tick has stopped in the box: the focus phase is over, nothing has advanced
C31_WaitingForOk ==
    /\ pending.kind = "task_completed"
    /\ current_state = "pomodoro"
    /\ current_time_left = 0
    /\ ~is_running
    /\ ~timer_active
    /\ tasks[1].done
====
